---- MODULE Spec2Model ----
(***************************************************************************)
(* Model of aircraft_models.py: the tree of gpkit Models built by the       *)
(* aircraft, the flight segments and the two missions, the substitution     *)
(* table of the study and the single solve of the top-level problem.        *)
(*                                                                          *)
(* A Model object is a record of the heap `models`; its id is its index.    *)
(* A Variable is named by (path of its owning Model, local symbol), the     *)
(* name the results are printed under (lines 453-516).  A constraint keeps  *)
(* its relation and, for each side, the sum of monomials it is; a monomial  *)
(* keeps the Variables it multiplies, in the order written (coefficients    *)
(* and exponents are not kept).                                             *)
(***************************************************************************)
EXTENDS Naturals, Sequences, FiniteSets, Bags, TLC

VARIABLES models, modelnums, lookups, substitutions, solves, err

vars == <<models, modelnums, lookups, substitutions, solves, err>>

(* ---------------------------------------------------------------- bounds *)
(* missions and problems built on the study's aircraft *)
MaxBuilds == 3

(* ------------------------------------------------------------ vocabulary *)
Types == {"SimpleOnDemandAircraft", "SimpleOnDemandStructure", "Rotors",
          "RotorsAero", "Battery", "BatteryPerformance", "Crew", "Passengers",
          "PowerSystem", "PowerSystemPerformance", "FlightState", "Hover",
          "LevelFlight", "OnDemandSizingMission", "OnDemandTypicalMission",
          "Model"}

PerformanceTypes == {"RotorsAero", "BatteryPerformance", "PowerSystemPerformance"}
SegmentTypes == {"Hover", "LevelFlight"}
MissionTypes == {"OnDemandSizingMission", "OnDemandTypicalMission"}

ReserveTypes == {"FAA", "Uber", "None"}

(* A Variable declared without a value (free) or with one (fixed). *)
U(sym) == [sym |-> sym, fixed |-> FALSE]
F(sym) == [sym |-> sym, fixed |-> TRUE]

(* The Variable `sym` owned by the Model at `path`. *)
V(path, sym) == [path |-> path, sym |-> sym]
NoVar == [path |-> <<>>, sym |-> "?"]

(* One monomial of the Variables vs; a one-term side. *)
T1(vs) == <<vs>>
One(v) == <<<<v>>>>

(* Items of a constraint list: a constraint, or a (list of) child Model. *)
Con(op, lhs, rhs) == [kind |-> "c", ids |-> <<>>, op |-> op, lhs |-> lhs, rhs |-> rhs]
Eq(lhs, rhs) == Con("==", lhs, rhs)
Geq(lhs, rhs) == Con(">=", lhs, rhs)
Leq(lhs, rhs) == Con("<=", lhs, rhs)
Sub(ids) == [kind |-> "m", ids |-> ids, op |-> "", lhs |-> <<>>, rhs |-> <<>>]

Blank(type, path) ==
    [type |-> type, path |-> path, decls |-> <<>>, cons |-> <<>>, refs |-> <<>>,
     segs |-> <<>>, perf |-> <<>>, cfg |-> "", built |-> FALSE,
     made |-> [decls |-> <<>>, cons |-> <<>>]]

(* ------------------------------------------------- naming and the heap *)
(* Entering a Model's setup: the object exists, and is named by the path  *)
(* of the Model whose setup is running plus its own type and the number   *)
(* of Models of that type made before it.                                 *)
Begin(w, type, pp) ==
    [w EXCEPT !.models = Append(@, Blank(type, Append(pp, <<type, w.nums[type]>>))),
              !.nums[type] = @ + 1]

(* a setup that also puts its constraints into the list of the Model it   *)
(* was handed                                                             *)
FinishIntoRef(w, self, decls, cons, refs, segs, perf, cfg, lks) ==
    [w EXCEPT !.models =
                [i \in DOMAIN w.models |->
                   IF i = self
                   THEN [w.models[i] EXCEPT !.decls = decls, !.cons = cons,
                                            !.refs = refs, !.segs = segs,
                                            !.perf = perf, !.cfg = cfg,
                                            !.built = TRUE,
                                            !.made = [decls |-> decls, cons |-> cons]]
                   ELSE IF refs # <<>> /\ i = refs[1]
                   THEN [w.models[i] EXCEPT !.cons = @ \o SelectSeq(cons, LAMBDA c : c.kind = "c")]
                   ELSE w.models[i]],
              !.log = @ \o lks,
              !.ret = self]

(* Leaving setup: the declared Variables and the returned constraints;    *)
(* `made` keeps what the setup returned.                                  *)
Finish(w, self, decls, cons, refs, segs, perf, cfg, lks) ==
    [w EXCEPT !.models[self] = [@ EXCEPT !.decls = decls, !.cons = cons,
                                         !.refs = refs, !.segs = segs,
                                         !.perf = perf, !.cfg = cfg,
                                         !.built = TRUE,
                                         !.made = [decls |-> decls, cons |-> cons]],
              !.log = @ \o lks,
              !.ret = self]

RangeOf(s) == {s[i] : i \in DOMAIN s}

(* K applied to the value of e (e is evaluated once) *)
Only(S) == CHOOSE r \in S : TRUE
Bind(e, K(_)) == Only({K(v) : v \in {e}})

(* ------------------------------------------------------------- lookup *)
(* The declarations of Model id carrying symbol sym. *)
Declared(w, id, sym) ==
    {<<id, i>> : i \in {j \in DOMAIN w.models[id].decls : w.models[id].decls[j].sym = sym}}

Outcome(w, from, sym, cands) ==
    [from |-> w.models[from].path, sym |-> sym, n |-> Cardinality(cands),
     status |-> IF Cardinality(cands) = 1 THEN "ok"
                ELSE IF cands = {} THEN "UnresolvedVariableError"
                ELSE "AmbiguousVariableError",
     var |-> IF Cardinality(cands) = 1
             THEN V(w.models[(CHOOSE c \in cands : TRUE)[1]].path, sym)
             ELSE NoVar]

(* resolve(from_model, symbol): own declarations first, then those of the *)
(* objects handed to the model at construction.                           *)
Resolve(w, from, sym) ==
    LET own == Declared(w, from, sym)
        lent == UNION {Declared(w, r, sym) : r \in RangeOf(w.models[from].refs)}
    IN Outcome(w, from, sym, IF own # {} THEN own ELSE lent)

(* The Models reachable from id through constraint lists, id included. *)
RECURSIVE Subtree(_, _)
Subtree(w, id) ==
    {id} \cup UNION {Subtree(w, c) :
        c \in UNION {RangeOf(w.models[id].cons[i].ids) : i \in DOMAIN w.models[id].cons}}

(* model[symbol]: the Variable of that name anywhere in the model's tree. *)
GetItem(w, from, sym) ==
    Outcome(w, from, sym, UNION {Declared(w, m, sym) : m \in Subtree(w, from)})

(* ------------------------------------------------------------ subsystems *)
PathOf(w, id) == w.models[id].path
New(w) == Len(w.models)

SimpleOnDemandStructureSetup(w0, pp, aircraft) ==
    Bind(Begin(w0, "SimpleOnDemandStructure", pp), LAMBDA w1 :
    LET self == New(w1)
        p == PathOf(w1, self)
    IN Finish(w1, self,
              <<U("W"), F("weight_fraction")>>,
              <<Eq(One(V(p, "W")), T1(<<V(p, "weight_fraction"), V(PathOf(w1, aircraft), "MTOW")>>))>>,
              <<aircraft>>, <<>>, <<>>, "", <<>>))

RotorsSetup(w0, pp) ==
    Bind(Begin(w0, "Rotors", pp), LAMBDA w1 :
    LET self == New(w1)
        p == PathOf(w1, self)
    IN Finish(w1, self,
              <<U("R"), U("D"), U("A"), U("A_{total}"), F("N"), F("s"), F("W")>>,
              <<Eq(One(V(p, "A")), T1(<<V(p, "R")>>)),
                Eq(One(V(p, "D")), T1(<<V(p, "R")>>)),
                Eq(One(V(p, "N")), One(V(p, "N"))),
                Eq(One(V(p, "s")), One(V(p, "s"))),
                Eq(One(V(p, "A_{total}")), T1(<<V(p, "N"), V(p, "A")>>))>>,
              <<>>, <<>>, <<>>, "", <<>>))

(* the declarations with the disk loading renamed, its lookups left as they are *)
RotorsAeroDeclsRenamed ==
    <<U("T"), U("T_perRotor"), U("T_A"), U("P"), U("P_perRotor"), U("VT"),
      U("\\omega"), U("MT"), F("MT_max"),
      U("CT"), U("CP"), U("CPi"), U("CP"), U("CL_mean"), F("CL_mean_max"), U("FOM"),
      F("ki"), F("Cd0"),
      U("p_{ratio}"), F("p_{ratio_max}"), F("x"), F("k3")>>

RotorsAeroDecls ==
    <<U("T"), U("T_perRotor"), U("T/A"), U("P"), U("P_perRotor"), U("VT"),
      U("\\omega"), U("MT"), F("MT_max"),
      U("CT"), U("CP"), U("CPi"), U("CP"), U("CL_mean"), F("CL_mean_max"), U("FOM"),
      F("ki"), F("Cd0"),
      U("p_{ratio}"), F("p_{ratio_max}"), F("x"), F("k3")>>

RotorsAeroSetup(w0, pp, rotors, flightState) ==
    Bind(Begin(w0, "RotorsAero", pp), LAMBDA w1 :
    LET self == New(w1)
        p == PathOf(w1, self)
        R == Resolve(w1, rotors, "R")
        A == Resolve(w1, rotors, "A")
        A_total == Resolve(w1, rotors, "A_{total}")
        N == Resolve(w1, rotors, "N")
        s == Resolve(w1, rotors, "s")
        rho == Resolve(w1, flightState, "\\rho")
        a == Resolve(w1, flightState, "a")
        CPp == V(p, RotorsAeroDecls[13].sym)
    IN Finish(w1, self, RotorsAeroDecls,
              <<Sub(<<flightState>>),
                Eq(One(V(p, "T")), T1(<<N.var, V(p, "T_perRotor")>>)),
                Eq(One(V(p, "P")), T1(<<N.var, V(p, "P_perRotor")>>)),
                Eq(One(V(p, "T_perRotor")), T1(<<rho.var, V(p, "VT"), A.var, V(p, "CT")>>)),
                Eq(One(V(p, "P_perRotor")), T1(<<rho.var, V(p, "VT"), A.var, V(p, "CP")>>)),
                Eq(One(V(p, "T/A")), T1(<<V(p, "T"), A_total.var>>)),
                Eq(One(V(p, "CPi")), T1(<<V(p, "CT")>>)),
                Eq(One(CPp), T1(<<s.var, V(p, "Cd0")>>)),
                Geq(One(V(p, "CP")), <<<<V(p, "ki"), V(p, "CPi")>>, <<CPp>>>>),
                Eq(One(V(p, "FOM")), T1(<<V(p, "CPi"), V(p, "CP")>>)),
                Eq(One(V(p, "VT")), T1(<<R.var, V(p, "\\omega")>>)),
                Eq(One(V(p, "VT")), T1(<<V(p, "MT"), a.var>>)),
                Leq(One(V(p, "MT")), One(V(p, "MT_max"))),
                Eq(One(V(p, "CL_mean")), T1(<<V(p, "CT"), s.var>>)),
                Leq(One(V(p, "CL_mean")), One(V(p, "CL_mean_max"))),
                Eq(One(V(p, "p_{ratio}")),
                   T1(<<V(p, "k3"), V(p, "T"), V(p, "\\omega"), rho.var, V(p, "x"), N.var, s.var>>)),
                Leq(One(V(p, "p_{ratio}")), One(V(p, "p_{ratio_max}")))>>,
              <<rotors, flightState>>, <<>>, <<>>, "",
              <<R, A, A_total, N, s, rho, a>>))

RotorsPerformance(w, pp, rotors, flightState) == RotorsAeroSetup(w, pp, rotors, flightState)

BatterySetup(w0, pp) ==
    Bind(Begin(w0, "Battery", pp), LAMBDA w1 :
    LET self == New(w1)
        p == PathOf(w1, self)
    IN Finish(w1, self,
              <<U("g"), U("C"), U("C_{eff}"), F("usable_energy_fraction"), U("W"),
                U("m"), F("C_m"), F("P_m"), U("P_{max}")>>,
              <<Eq(One(V(p, "C")), T1(<<V(p, "m"), V(p, "C_m")>>)),
                Eq(One(V(p, "W")), T1(<<V(p, "m"), V(p, "g")>>)),
                Eq(One(V(p, "C_{eff}")), T1(<<V(p, "usable_energy_fraction"), V(p, "C")>>)),
                Eq(One(V(p, "P_{max}")), T1(<<V(p, "P_m"), V(p, "m")>>))>>,
              <<>>, <<>>, <<>>, "", <<>>))

BatteryPerformanceSetup(w0, pp, battery) ==
    Bind(Begin(w0, "BatteryPerformance", pp), LAMBDA w1 :
    LET self == New(w1)
        p == PathOf(w1, self)
    IN Finish(w1, self,
              <<U("E"), U("P"), U("t"), F("Rt")>>,
              <<Eq(One(V(p, "E")), T1(<<V(p, "P"), V(p, "Rt"), V(p, "t"), V(p, "Rt")>>)),
                Leq(One(V(p, "P")), One(V(PathOf(w1, battery), "P_{max}")))>>,
              <<battery>>, <<>>, <<>>, "", <<>>))

(* one performance Model per battery, handed again to every later segment *)
BatteryPerformanceShared(w, pp, battery) ==
    LET old == {i \in DOMAIN w.models :
                   /\ w.models[i].type = "BatteryPerformance"
                   /\ w.models[i].built
                   /\ w.models[i].refs = <<battery>>}
    IN IF old = {} THEN BatteryPerformanceSetup(w, pp, battery)
       ELSE [w EXCEPT !.ret = CHOOSE i \in old : TRUE]

BatteryPerformanceOf(w, pp, battery) == BatteryPerformanceSetup(w, pp, battery)

CrewSetup(w0, pp) ==
    Bind(Begin(w0, "Crew", pp), LAMBDA w1 :
    LET self == New(w1)
        p == PathOf(w1, self)
    IN Finish(w1, self,
              <<F("W_{oneCrew}"), F("N_{crew}"), U("W")>>,
              <<Eq(One(V(p, "W")), T1(<<V(p, "N_{crew}"), V(p, "W_{oneCrew}")>>))>>,
              <<>>, <<>>, <<>>, "", <<>>))

PassengersSetup(w0, pp) ==
    Bind(Begin(w0, "Passengers", pp), LAMBDA w1 :
    LET self == New(w1)
        p == PathOf(w1, self)
    IN Finish(w1, self,
              <<F("W_{onePassenger}"), F("N_{passengers}"), U("W")>>,
              <<Eq(One(V(p, "W")), T1(<<V(p, "N_{passengers}"), V(p, "W_{onePassenger}")>>))>>,
              <<>>, <<>>, <<>>, "", <<>>))

PowerSystemSetup(w0, pp) ==
    Bind(Begin(w0, "PowerSystem", pp), LAMBDA w1 :
    LET self == New(w1)
        p == PathOf(w1, self)
    IN Finish(w1, self,
              <<F("W"), F("eta")>>,
              <<Eq(One(V(p, "W")), One(V(p, "W"))),
                Eq(One(V(p, "eta")), One(V(p, "eta")))>>,
              <<>>, <<>>, <<>>, "", <<>>))

PowerSystemPerformanceSetup(w0, pp, powerSystem) ==
    Bind(Begin(w0, "PowerSystemPerformance", pp), LAMBDA w1 :
    LET self == New(w1)
        p == PathOf(w1, self)
    IN Finish(w1, self,
              <<U("P_{in}"), U("P_{out}")>>,
              <<Eq(One(V(p, "P_{out}")), T1(<<V(PathOf(w1, powerSystem), "eta"), V(p, "P_{in}")>>))>>,
              <<powerSystem>>, <<>>, <<>>, "", <<>>))

PowerSystemPerformanceOf(w, pp, powerSystem) == PowerSystemPerformanceSetup(w, pp, powerSystem)

FlightStateSetup(w0, pp) ==
    Bind(Begin(w0, "FlightState", pp), LAMBDA w1 :
    LET self == New(w1)
        p == PathOf(w1, self)
    IN Finish(w1, self,
              <<F("\\rho"), F("a")>>,
              <<Eq(One(V(p, "a")), One(V(p, "a"))),
                Eq(One(V(p, "\\rho")), One(V(p, "\\rho")))>>,
              <<>>, <<>>, <<>>, "", <<>>))

(* --------------------------------------------------------------- aircraft *)
(* self.rotors, self.battery, self.crew, self.structure, self.powerSystem *)
(* are kept, in that order, in the record's `segs`.                        *)
SimpleOnDemandAircraftSetup(w0, pp) ==
    Bind(Begin(w0, "SimpleOnDemandAircraft", pp), LAMBDA w1 :
    Bind(RotorsSetup(w1, PathOf(w1, New(w1))), LAMBDA w2 :
    Bind(BatterySetup(w2, PathOf(w1, New(w1))), LAMBDA w3 :
    Bind(CrewSetup(w3, PathOf(w1, New(w1))), LAMBDA w4 :
    Bind(SimpleOnDemandStructureSetup(w4, PathOf(w1, New(w1)), New(w1)), LAMBDA w5 :
    Bind(PowerSystemSetup(w5, PathOf(w1, New(w1))), LAMBDA w6 :
    LET self == New(w1)
        p == PathOf(w1, self)
        components == <<w2.ret, w3.ret, w4.ret, w5.ret, w6.ret>>
        battery == w3.ret
        g == Resolve(w6, battery, "g")
        C_eff == Resolve(w6, battery, "C_{eff}")
        W == [i \in 1..5 |-> Resolve(w6, components[i], "W")]
    IN Finish(w6, self,
              <<U("MTOW"), U("W_{noPassengers}"), U("C_{eff}"), F("g"), F("L_D"), F("\\eta")>>,
              <<Eq(One(V(p, "g")), One(g.var)),
                Sub(components),
                Eq(One(V(p, "C_{eff}")), One(C_eff.var)),
                Geq(One(V(p, "W_{noPassengers}")), [i \in 1..5 |-> <<W[i].var>>])>>,
              <<>>, components, <<>>, "",
              <<g, C_eff>> \o W)))))))

(* --------------------------------------------------------------- segments *)
Rotors_(w, aircraft) == w.models[aircraft].segs[1]
Battery_(w, aircraft) == w.models[aircraft].segs[2]
PowerSystem_(w, aircraft) == w.models[aircraft].segs[5]

HoverSetup(w0, pp, mission, aircraft, state) ==
    Bind(Begin(w0, "Hover", pp), LAMBDA w1 :
    Bind(RotorsPerformance(w1, PathOf(w1, New(w1)), Rotors_(w1, aircraft), state), LAMBDA w2 :
    Bind(BatteryPerformanceOf(w2, PathOf(w1, New(w1)), Battery_(w2, aircraft)), LAMBDA w3 :
    Bind(PowerSystemPerformanceOf(w3, PathOf(w1, New(w1)), PowerSystem_(w3, aircraft)), LAMBDA w4 :
    LET self == New(w1)
        p == PathOf(w1, self)
        W == V(PathOf(w1, mission), "W_{mission}")
        rotorPerf == w2.ret
        batteryPerf == w3.ret
        powerSystemPerf == w4.ret
        rP == Resolve(w4, rotorPerf, "P")
        rT == Resolve(w4, rotorPerf, "T")
        rTA == Resolve(w4, rotorPerf, "T/A")
        pIn == Resolve(w4, powerSystemPerf, "P_{in}")
        pOut == Resolve(w4, powerSystemPerf, "P_{out}")
        bE == Resolve(w4, batteryPerf, "E")
        bP == Resolve(w4, batteryPerf, "P")
        bt == Resolve(w4, batteryPerf, "t")
    IN Finish(w4, self,
              <<U("E"), U("P_{battery}"), U("P_{rotors}"), U("T"), U("T/A"), F("t")>>,
              <<Sub(<<rotorPerf>>), Sub(<<batteryPerf>>), Sub(<<powerSystemPerf>>),
                Eq(One(V(p, "P_{rotors}")), One(rP.var)),
                Eq(One(V(p, "T")), One(rT.var)),
                Eq(One(V(p, "T/A")), One(rTA.var)),
                Eq(One(V(p, "P_{battery}")), One(pIn.var)),
                Eq(One(V(p, "P_{rotors}")), One(pOut.var)),
                Eq(One(V(p, "E")), One(bE.var)),
                Eq(One(V(p, "P_{battery}")), One(bP.var)),
                Eq(One(V(p, "t")), One(bt.var)),
                Eq(One(V(p, "T")), One(W))>>,
              <<mission, aircraft, state>>, <<>>,
              <<rotorPerf, batteryPerf, powerSystemPerf>>, "",
              <<rP, rT, rTA, pIn, pOut, bE, bP, bt>>)))))

LevelFlightSetup(w0, pp, mission, aircraft) ==
    Bind(Begin(w0, "LevelFlight", pp), LAMBDA w1 :
    Bind(BatteryPerformanceOf(w1, PathOf(w1, New(w1)), Battery_(w1, aircraft)), LAMBDA w2 :
    Bind(PowerSystemPerformanceOf(w2, PathOf(w1, New(w1)), PowerSystem_(w2, aircraft)), LAMBDA w3 :
    LET self == New(w1)
        p == PathOf(w1, self)
        W == V(PathOf(w1, mission), "W_{mission}")
        L_D == V(PathOf(w1, aircraft), "L_D")
        eta_cruise == V(PathOf(w1, aircraft), "\\eta")
        batteryPerf == w2.ret
        powerSystemPerf == w3.ret
        bE == Resolve(w3, batteryPerf, "E")
        bP == Resolve(w3, batteryPerf, "P")
        bt == Resolve(w3, batteryPerf, "t")
        pIn == Resolve(w3, powerSystemPerf, "P_{in}")
        pOut == Resolve(w3, powerSystemPerf, "P_{out}")
    IN Finish(w3, self,
              <<U("E"), U("P_{battery}"), U("P_{cruise}"), U("T"), U("D"), U("t"),
                U("segment_range"), F("V")>>,
              <<Eq(One(V(p, "E")), One(bE.var)),
                Eq(One(V(p, "P_{battery}")), One(bP.var)),
                Eq(One(V(p, "t")), One(bt.var)),
                Eq(One(V(p, "P_{battery}")), One(pIn.var)),
                Eq(One(V(p, "P_{cruise}")), One(pOut.var)),
                Eq(One(V(p, "segment_range")), T1(<<V(p, "V"), V(p, "t")>>)),
                Eq(T1(<<eta_cruise, V(p, "P_{cruise}")>>), T1(<<V(p, "T"), V(p, "V")>>)),
                Eq(One(V(p, "T")), One(V(p, "D"))),
                Eq(One(W), T1(<<L_D, V(p, "D")>>)),
                Sub(<<batteryPerf>>), Sub(<<powerSystemPerf>>)>>,
              <<mission, aircraft>>, <<>>,
              <<batteryPerf, powerSystemPerf>>, "",
              <<bE, bP, bt, pIn, pOut>>))))

(* self.E of a segment *)
E_(w, seg) == V(PathOf(w, seg), "E")

(* a sum of one-Variable terms *)
SumOf(vs) == [i \in DOMAIN vs |-> <<vs[i]>>]

(* --------------------------------------------------------------- missions *)
(* The segments whose E the sizing mission sums (lines 317-318) and those  *)
(* the typical mission sums (line 382), as positions in fs0, fs1, ...      *)
(* the list written without its last segment *)
SegmentItemsWithoutLast(fs) == [i \in 1..(Len(fs) - 1) |-> Sub(<<fs[i]>>)]

(* constraints += [self.fs0, self.fs1, ...]: the segments, each an item *)
SegmentItems(fs) == [i \in DOMAIN fs |-> Sub(<<fs[i]>>)]

(* the sum with the reserve segment fs4 left out *)
SizingEnergyTermsWithoutReserve == <<1, 2, 3, 4, 6>>

SizingEnergyTerms == <<1, 2, 3, 4, 5, 6>>
TypicalEnergyTerms == <<1, 2, 3>>

OnDemandSizingMissionSetup(w0, pp, aircraft, reserve_type) ==
    Bind(Begin(w0, "OnDemandSizingMission", pp), LAMBDA w1 :
    Bind(PassengersSetup(w1, PathOf(w1, New(w1))), LAMBDA w2 :
    Bind(FlightStateSetup(w2, PathOf(w1, New(w1))), LAMBDA w3 :
    Bind(HoverSetup(w3, PathOf(w1, New(w1)), New(w1), aircraft, w3.ret), LAMBDA w4 :
    Bind(LevelFlightSetup(w4, PathOf(w1, New(w1)), New(w1), aircraft), LAMBDA w5 :
    Bind(HoverSetup(w5, PathOf(w1, New(w1)), New(w1), aircraft, w3.ret), LAMBDA w6 :
    Bind(HoverSetup(w6, PathOf(w1, New(w1)), New(w1), aircraft, w3.ret), LAMBDA w7 :
    Bind(LevelFlightSetup(w7, PathOf(w1, New(w1)), New(w1), aircraft), LAMBDA w8 :
    Bind(HoverSetup(w8, PathOf(w1, New(w1)), New(w1), aircraft, w3.ret), LAMBDA w9 :
    LET self == New(w1)
        p == PathOf(w1, self)
        W == V(p, "W_{mission}")
        C_eff == V(PathOf(w1, aircraft), "C_{eff}")
        passengers == w2.ret
        hoverState == w3.ret
        fs == <<w4.ret, w5.ret, w6.ret, w7.ret, w8.ret, w9.ret>>
        aW == Resolve(w9, aircraft, "W_{noPassengers}")
        pW == Resolve(w9, passengers, "W")
        aM == Resolve(w9, aircraft, "MTOW")
        f4t == Resolve(w9, fs[5], "t")
        f4r == Resolve(w9, fs[5], "segment_range")
        f1r == Resolve(w9, fs[2], "segment_range")
        pr == GetItem(w9, fs[1], "p_{ratio}")
        isFAA == reserve_type = "FAA"
        isUber == reserve_type = "Uber"
    IN Finish(w9, self,
              <<U("W_{mission}"), F("mission_range"), U("p_{ratio}")>>
                \o (IF isFAA THEN <<F("t_{loiter}")>> ELSE <<>>)
                \o (IF isUber THEN <<F("R_{divert}")>> ELSE <<>>),
              <<Geq(One(W), <<<<aW.var>>, <<pW.var>>>>),
                Geq(One(aM.var), One(W)),
                Sub(<<passengers>>)>>
                \o (IF isFAA THEN <<Eq(One(V(p, "t_{loiter}")), One(f4t.var))>> ELSE <<>>)
                \o (IF isUber THEN <<Eq(One(V(p, "R_{divert}")), One(f4r.var))>> ELSE <<>>)
                \o <<Eq(One(V(p, "mission_range")), One(f1r.var)),
                     Geq(One(C_eff), SumOf([i \in DOMAIN SizingEnergyTerms |->
                                               E_(w9, fs[SizingEnergyTerms[i]])]))>>
                \o SegmentItems(fs)
                \o <<Eq(One(V(p, "p_{ratio}")), One(pr.var))>>
                \o w9.models[hoverState].cons,
              <<aircraft>>, fs, <<>>, reserve_type,
              <<aW, pW, aM>>
                \o (IF isFAA THEN <<f4t>> ELSE <<>>)
                \o (IF isUber THEN <<f4r>> ELSE <<>>)
                \o <<f1r, pr>>))))))))))

OnDemandTypicalMissionSetup(w0, pp, aircraft) ==
    Bind(Begin(w0, "OnDemandTypicalMission", pp), LAMBDA w1 :
    Bind(PassengersSetup(w1, PathOf(w1, New(w1))), LAMBDA w2 :
    Bind(FlightStateSetup(w2, PathOf(w1, New(w1))), LAMBDA w3 :
    Bind(HoverSetup(w3, PathOf(w1, New(w1)), New(w1), aircraft, w3.ret), LAMBDA w4 :
    Bind(LevelFlightSetup(w4, PathOf(w1, New(w1)), New(w1), aircraft), LAMBDA w5 :
    Bind(HoverSetup(w5, PathOf(w1, New(w1)), New(w1), aircraft, w3.ret), LAMBDA w6 :
    LET self == New(w1)
        p == PathOf(w1, self)
        W == V(p, "W_{mission}")
        C_eff == V(PathOf(w1, aircraft), "C_{eff}")
        MTOW == V(PathOf(w1, aircraft), "MTOW")
        passengers == w2.ret
        hoverState == w3.ret
        fs == <<w4.ret, w5.ret, w6.ret>>
        aW == Resolve(w6, aircraft, "W_{noPassengers}")
        pW == Resolve(w6, passengers, "W")
        aM == Resolve(w6, aircraft, "MTOW")
        f1r == Resolve(w6, fs[2], "segment_range")
        pr == GetItem(w6, fs[1], "p_{ratio}")
        pN == Resolve(w6, passengers, "N_{passengers}")
        ft == [i \in 1..3 |-> Resolve(w6, fs[i], "t")]
    IN Finish(w6, self,
              <<U("W_{mission}"), F("mission_range"), U("p_{ratio}"),
                U("cost_per_trip"), U("cost_per_trip_per_passenger"),
                U("c_{vehicle}"), U("t_{mission}"), F("vehicle_life"),
                F("cost_per_weight"), U("purchase_price"),
                U("c_{energy}"), F("cost_per_energy"), U("E_{mission}"),
                U("c_{pilot}"), F("pilot_salary"),
                U("c_{maintenance}"), U("overhaul_cost"), F("overhaul_time"),
                F("N_{mechanics}"), F("time_between_overhauls"), F("mechanic_salary")>>,
              <<Geq(One(W), <<<<aW.var>>, <<pW.var>>>>),
                Geq(One(aM.var), One(W)),
                Sub(<<passengers>>),
                Eq(One(V(p, "mission_range")), One(f1r.var)),
                Geq(One(C_eff), SumOf([i \in DOMAIN TypicalEnergyTerms |->
                                          E_(w6, fs[TypicalEnergyTerms[i]])]))>>
                \o SegmentItems(fs)
                \o <<Eq(One(V(p, "p_{ratio}")), One(pr.var))>>
                \o w6.models[hoverState].cons
                \o <<Eq(One(V(p, "cost_per_trip")),
                        T1(<<V(p, "cost_per_trip_per_passenger"), pN.var>>)),
                     Geq(One(V(p, "cost_per_trip")),
                         SumOf(<<V(p, "c_{vehicle}"), V(p, "c_{energy}"), V(p, "c_{pilot}"),
                                 V(p, "c_{maintenance}")>>)),
                     Eq(One(V(p, "c_{vehicle}")),
                        T1(<<V(p, "purchase_price"), V(p, "t_{mission}"), V(p, "vehicle_life")>>)),
                     Geq(One(V(p, "t_{mission}")), SumOf([i \in 1..3 |-> ft[i].var])),
                     Eq(One(V(p, "purchase_price")), T1(<<V(p, "cost_per_weight"), MTOW>>)),
                     Eq(One(V(p, "c_{energy}")),
                        T1(<<V(p, "E_{mission}"), V(p, "cost_per_energy")>>)),
                     Geq(One(V(p, "E_{mission}")), SumOf([i \in 1..3 |-> E_(w6, fs[i])])),
                     Eq(One(V(p, "c_{pilot}")), T1(<<V(p, "pilot_salary"), V(p, "t_{mission}")>>)),
                     Eq(One(V(p, "c_{maintenance}")),
                        T1(<<V(p, "overhaul_cost"), V(p, "t_{mission}"),
                             V(p, "time_between_overhauls")>>)),
                     Eq(One(V(p, "overhaul_cost")),
                        T1(<<V(p, "N_{mechanics}"), V(p, "overhaul_time"),
                             V(p, "mechanic_salary")>>))>>,
              <<aircraft>>, fs, <<>>, "",
              <<aW, pW, aM, f1r, pr, pN>> \o ft)))))))

(* ---------------------------------------------------------------- problem *)
(* Model(cost, [aircraft, sizing, typical]) of lines 449-450: the list is  *)
(* the new Model's constraint list.                                        *)
(* the list written without the aircraft *)
ProblemChildrenMissionsOnly(aircraft, sizing, typical) == <<sizing, typical>>

ProblemChildren(aircraft, sizing, typical) == <<aircraft, sizing, typical>>

ProblemSetup(w0, aircraft, sizing, typical) ==
    Bind(Begin(w0, "Model", <<>>), LAMBDA w1 :
    LET self == New(w1)
        cost == GetItem(w1, typical, "cost_per_trip")
        kids == ProblemChildren(aircraft, sizing, typical)
    IN Finish(w1, self, <<>>, [i \in DOMAIN kids |-> Sub(<<kids[i]>>)],
              <<>>, <<>>, <<>>, "", <<cost>>))

(* -------------------------------------------------------------- flattening *)
(* A constraint list flattened: each constraint in place, each child Model *)
(* replaced by its own flattened list, in the order of the list.           *)
RECURSIVE FlattenFrom(_, _, _), FlattenIds(_, _, _)
FlattenFrom(ms, items, i) ==
    IF i > Len(items) THEN <<>>
    ELSE (IF items[i].kind = "c" THEN <<items[i]>> ELSE FlattenIds(ms, items[i].ids, 1))
         \o FlattenFrom(ms, items, i + 1)
FlattenIds(ms, ids, j) ==
    IF j > Len(ids) THEN <<>>
    ELSE FlattenFrom(ms, ms[ids[j]].cons, 1) \o FlattenIds(ms, ids, j + 1)

FlattenItems(ms, items) == FlattenFrom(ms, items, 1)

Flat(id) == FlattenItems(models, models[id].cons)

SideVars(side) == UNION {RangeOf(side[i]) : i \in DOMAIN side}
ConVars(c) == SideVars(c.lhs) \cup SideVars(c.rhs)
ListVars(cs) == UNION {ConVars(cs[i]) : i \in DOMAIN cs}

(* the Variables of the flattened set of Model id *)
FlatVars(id) == ListVars(Flat(id))

World == [models |-> models, nums |-> modelnums, log |-> <<>>, ret |-> 0]

(* Variables of the tree of id that were given a value where declared *)
FixedAtBuild(id) ==
    UNION {{V(models[m].path, models[m].decls[i].sym) :
              i \in {j \in DOMAIN models[m].decls : models[m].decls[j].fixed}} :
           m \in Subtree(World, id)}

(* ---------------------------------------------------------- substitutions *)
T_A == "16.3 lbf/ft^2"

(* the table written with fs1, a LevelFlight, in place of fs2 *)
StudySegmentsWithCruise == {1, 2, 4, 6}

(* fs0, fs2, fs3, fs5: the segments whose T/A lines 441-443 pin *)
StudySegments == {1, 3, 4, 6}

StudyLookups(m) == {Resolve(World, models[m].segs[i], "T/A") : i \in StudySegments}
StudyTable(m) == {[var |-> l.var, val |-> T_A] : l \in StudyLookups(m)}

(* a table that also pins the hover time of fs0, fixed where declared *)
FixedTargetTable(m) ==
    StudyTable(m) \cup {[var |-> V(PathOf(World, models[m].segs[1]), "t"), val |-> "60 s"]}

(* a table that also pins the rotor diameter, which no constraint of the   *)
(* mission mentions                                                        *)
AbsentTargetTable(m) ==
    StudyTable(m) \cup
    {[var |-> V(PathOf(World, Rotors_(World, models[m].refs[1])), "D"), val |-> "5 ft"]}

Tables(m) == {StudyTable(m), FixedTargetTable(m), AbsentTargetTable(m)}

(* apply_substitutions: every target is in the flattened set and free *)
TargetsOK(present, fixed, table) ==
    \A e \in table : e.var \in present /\ e.var \notin fixed

Updated(subs, m, table) ==
    {e \in subs : ~(e.model = m /\ \E x \in table : x.var = e.var)}
    \cup {[model |-> m, var |-> x.var, val |-> x.val] : x \in table}

(* ------------------------------------------------------------------ solve *)
SolverOutcomes == {"Solution", "Infeasible"}

(* the external solver: values for the Variables of the flattened set, or *)
(* Infeasible with none                                                    *)
Solver(p, outcome) ==
    [status |-> outcome,
     variables |-> IF outcome = "Solution" THEN FlatVars(p) ELSE {}]

(* solution = problem.solve(verbosity=0) *)
MainSolve(result) == result

(* a solve that is tried again while the last result was Infeasible *)
MaySolveRetry(p) ==
    \A i \in DOMAIN solves : solves[i].problem = p => solves[i].result.status = "Infeasible"

(* line 451 runs once for the problem of line 449 *)
MaySolve(p) == \A i \in DOMAIN solves : solves[i].problem # p

(* ---------------------------------------------------------------- actions *)
Ids(type) == {i \in DOMAIN models : models[i].type = type /\ models[i].built}
TopLevel == {i \in DOMAIN models : Len(models[i].path) = 1}
Builds == {i \in TopLevel : models[i].type # "SimpleOnDemandAircraft"}

Init ==
    /\ models = <<>>
    /\ modelnums = [t \in Types |-> 0]
    /\ lookups = {}
    /\ substitutions = {}
    /\ solves = <<>>
    /\ err = "none"

(* A constructor call: the lookups it made are kept; if one of them failed *)
(* the exception leaves the caller without any new Model.                  *)
Commit(w) ==
    LET bad == {i \in DOMAIN w.log : w.log[i].status # "ok"}
    IN /\ lookups' = lookups \cup RangeOf(w.log)
       /\ modelnums' = w.nums
       /\ IF bad = {}
          THEN models' = w.models /\ err' = "none"
          ELSE models' = models
               /\ err' = w.log[CHOOSE i \in bad : \A j \in bad : i <= j].status
       /\ UNCHANGED <<substitutions, solves>>

(* the study has no handler: a statement runs only if none before it raised *)
Running == err = "none"

(* testAircraft, built once at the head of the study (line 435) *)
NewAircraft ==
    /\ Running
    /\ \A i \in DOMAIN models : models[i].type # "SimpleOnDemandAircraft"
    /\ \E w \in {SimpleOnDemandAircraftSetup(World, <<>>)} : Commit(w)

NewSizingMission ==
    /\ Running
    /\ Cardinality(Builds) < MaxBuilds
    /\ \E a \in Ids("SimpleOnDemandAircraft"), rt \in ReserveTypes :
          \E w \in {OnDemandSizingMissionSetup(World, <<>>, a, rt)} : Commit(w)

NewTypicalMission ==
    /\ Running
    /\ Cardinality(Builds) < MaxBuilds
    /\ \E a \in Ids("SimpleOnDemandAircraft") :
          \E w \in {OnDemandTypicalMissionSetup(World, <<>>, a)} : Commit(w)

(* lines 441-443: the four topvar lookups that build the table, then the  *)
(* update                                                                 *)
UpdateSubstitutions ==
    /\ Running
    /\ \E m \in Ids("OnDemandSizingMission") :
       \E present \in {FlatVars(m)}, fixed \in {FixedAtBuild(m)} :
       \E table \in Tables(m) :
          /\ IF \E l \in StudyLookups(m) : l.status # "ok"
             THEN substitutions' = substitutions
                  /\ err' = (CHOOSE l \in StudyLookups(m) : l.status # "ok").status
             ELSE IF TargetsOK(present, fixed, table)
             THEN substitutions' = Updated(substitutions, m, table) /\ err' = "none"
             ELSE substitutions' = substitutions /\ err' = "SubstitutionTargetError"
          /\ lookups' = lookups \cup StudyLookups(m)
          /\ UNCHANGED <<models, modelnums, solves>>

ComposeProblem ==
    /\ Running
    /\ Cardinality(Builds) < MaxBuilds
    /\ \E a \in Ids("SimpleOnDemandAircraft"), s \in Ids("OnDemandSizingMission"),
          t \in Ids("OnDemandTypicalMission") :
          /\ models[s].refs = <<a>>
          /\ models[t].refs = <<a>>
          /\ \E w \in {ProblemSetup(World, a, s, t)} : Commit(w)

Solve ==
    /\ Running
    /\ \E p \in Ids("Model"), outcome \in SolverOutcomes :
       /\ MaySolve(p)
       /\ \E r \in {Solver(p, outcome)} :
             solves' = Append(solves, [problem |-> p, result |-> r,
                                       solution |-> MainSolve(r)])
       /\ UNCHANGED <<models, modelnums, lookups, substitutions, err>>

Next ==
    \/ NewAircraft
    \/ NewSizingMission
    \/ NewTypicalMission
    \/ UpdateSubstitutions
    \/ ComposeProblem
    \/ Solve

Spec == Init /\ [][Next]_vars

(* ================================================================ claims *)
Built == {i \in DOMAIN models : models[i].built}
Sizing == Ids("OnDemandSizingMission")
Typical == Ids("OnDemandTypicalMission")
Missions == Sizing \cup Typical
Segments == {i \in Built : models[i].type \in SegmentTypes}
Problems == Ids("Model")

(* the multiset of the entries of a sequence *)
SeqBag(s) == [x \in RangeOf(s) |-> Cardinality({i \in DOMAIN s : s[i] = x})]

OwnConstraints(m) == {i \in DOMAIN models[m].cons : models[m].cons[i].kind = "c"}

(* the constraints of mission m that fix Variable sym of its reserve segment fs4 *)
ReserveOn(m, sym) ==
    {i \in OwnConstraints(m) :
        /\ models[m].cons[i].op = "=="
        /\ models[m].cons[i].rhs = One(V(models[models[m].segs[5]].path, sym))}

(* C1: every built sizing mission holds exactly one reserve constraint on  *)
(* fs4, whatever the reserve-policy selector was: "FAA" gives one on t and *)
(* none on segment_range, "Uber" one on segment_range and none on t.       *)
C1_ExactlyOneReserveConstraint ==
    \A m \in Sizing :
        /\ Cardinality(ReserveOn(m, "t")) + Cardinality(ReserveOn(m, "segment_range")) = 1
        /\ models[m].cfg = "FAA" => Cardinality(ReserveOn(m, "t")) = 1
        /\ models[m].cfg = "Uber" => Cardinality(ReserveOn(m, "segment_range")) = 1

(* the energy-budget constraints of mission m: C_eff of its aircraft on the left of >= *)
EnergyBudgets(m) ==
    {i \in OwnConstraints(m) :
        /\ models[m].cons[i].op = ">="
        /\ models[m].cons[i].lhs = One(V(models[models[m].refs[1]].path, "C_{eff}"))}

(* C2: every built mission has one energy-budget constraint, C_eff of the  *)
(* aircraft >= a sum whose terms are, as a multiset, the E declared by     *)
(* each of the mission's segments, each exactly once and nothing else.     *)
C2_EnergyBudgetSumsEverySegment ==
    \A m \in Missions :
        /\ Cardinality(EnergyBudgets(m)) = 1
        /\ \A i \in EnergyBudgets(m) :
              LET sum == SeqBag(models[m].cons[i].rhs)
                  segE == {<<V(models[g].path, "E")>> : g \in RangeOf(models[m].segs)}
              IN /\ DOMAIN sum = segE
                 /\ \A x \in DOMAIN sum : sum[x] = 1
                 /\ Cardinality(segE) = Len(models[m].segs)
                 /\ \A g \in RangeOf(models[m].segs) :
                       Cardinality(Declared(World, g, "E")) = 1

C2_Witness ==
    /\ \E m \in Sizing : Len(models[m].segs) = 6
    /\ \E m \in Typical : Len(models[m].segs) = 3

(* every declaration of every Model *)
Declarations == UNION {{<<m, i>> : i \in DOMAIN models[m].decls} : m \in Built}
QualifiedName(d) == <<models[d[1]].path, models[d[1]].decls[d[2]].sym>>

(* distinct Model objects have distinct instance paths *)
InstancePathsDistinct ==
    \A i, j \in DOMAIN models : i # j => models[i].path # models[j].path

(* C3: every instance has its own path, and over all Models built the      *)
(* qualified names (owner path, symbol) of the declared Variables are      *)
(* pairwise distinct.                                                      *)
C3_QualifiedNamesDistinct ==
    /\ InstancePathsDistinct
    /\ \A d, e \in Declarations : d # e => QualifiedName(d) # QualifiedName(e)

(* C4: no built Model declares the same local symbol twice. *)
C4_LocalSymbolsUnique ==
    \A m \in Built : \A i, j \in DOMAIN models[m].decls :
        i # j => models[m].decls[i].sym # models[m].decls[j].sym

(* C5: every lookup made while building the aircraft, the missions and the *)
(* problem, and by the study's substitution table, found exactly one       *)
(* Variable, one that its owner declares; none raised                      *)
(* UnresolvedVariableError or AmbiguousVariableError.                      *)
C5_EveryLookupResolves ==
    /\ err \notin {"UnresolvedVariableError", "AmbiguousVariableError"}
    /\ \A l \in lookups :
          /\ l.status = "ok"
          /\ l.n = 1
          /\ \E m \in DOMAIN models :
                /\ models[m].path = l.var.path
                /\ \E i \in DOMAIN models[m].decls : models[m].decls[i].sym = l.var.sym

C5_Witness ==
    /\ \E l \in lookups : l.sym = "p_{ratio}" /\ l.var.path # l.from
    /\ \E l \in lookups : l.sym = "segment_range"
    /\ \E l \in lookups : l.sym = "cost_per_trip"
    /\ \E m \in Sizing : Cardinality(StudyLookups(m)) = 4 /\ StudyLookups(m) \subseteq lookups

(* the substitutions held, and the entries of the study's table, are all   *)
(* on Variables present in the flattened set of their mission and free     *)
C6_HeldTargetsOK ==
    \A m \in Sizing :
        LET present == FlatVars(m)
            fixed == FixedAtBuild(m)
        IN /\ \A e \in substitutions :
                 e.model = m => e.var \in present /\ e.var \notin fixed
           /\ \A e \in StudyTable(m) : e.var \in present /\ e.var \notin fixed

(* a step that ends in SubstitutionTargetError changes nothing held *)
C6_RejectionLeavesUnchanged ==
    err' = "SubstitutionTargetError" => substitutions' = substitutions /\ models' = models

(* C6: an update takes effect only when every target is present in the     *)
(* flattened set of its mission and free, so the substitutions held are    *)
(* always on such Variables; the study's table (T/A of fs0, fs2, fs3, fs5) *)
(* targets only such Variables; and an update that fails with              *)
(* SubstitutionTargetError changes neither the Models nor the              *)
(* substitutions.                                                          *)
C6_SubstitutionTargets == []C6_HeldTargetsOK /\ [][C6_RejectionLeavesUnchanged]_vars

C6_Witness ==
    /\ err = "SubstitutionTargetError"
    /\ \E m \in Sizing : {[model |-> m, var |-> e.var, val |-> e.val] : e \in StudyTable(m)}
                           \subseteq substitutions

(* C7: no sizing mission is built from a reserve-policy value other than   *)
(* "FAA" and "Uber": such a construction aborts.                           *)
C7_UnrecognizedPolicyAborts ==
    \A m \in DOMAIN models :
        models[m].type = "OnDemandSizingMission" => models[m].cfg \in {"FAA", "Uber"}

(* each problem has at most one solve on record, and the caller holds the  *)
(* solver's result as it was returned                                      *)
C8_SolvedOnce ==
    /\ \A i, j \in DOMAIN solves : solves[i].problem = solves[j].problem => i = j
    /\ \A i \in DOMAIN solves :
          /\ solves[i].solution = solves[i].result
          /\ solves[i].result.status \in SolverOutcomes
          /\ solves[i].result.status = "Infeasible" => solves[i].solution.variables = {}
          /\ solves[i].result.status = "Solution" =>
                 solves[i].solution.variables = FlatVars(solves[i].problem)

(* no step changes a recorded solve or the constraints of a solved problem *)
C8_NoRepair ==
    \A i \in DOMAIN solves :
        /\ i \in DOMAIN solves' /\ solves'[i] = solves[i]
        /\ FlattenItems(models', models'[solves[i].problem].cons) = Flat(solves[i].problem)

(* C8: a problem is solved at most once; what the caller holds is what the *)
(* solver returned; an Infeasible result has no values; and no step after  *)
(* a solve changes the flattened constraints of the solved problem.        *)
C8_SinglePassThroughSolve == []C8_SolvedOnce /\ [][C8_NoRepair]_vars

C8_Witness ==
    \E i \in DOMAIN solves :
        /\ solves[i].result.status = "Infeasible"
        /\ solves[i].solution.variables = {}
        /\ models[solves[i].problem].type = "Model"

(* the places of constraint list m that hold a child Model *)
ChildPositions(m) ==
    UNION {{<<i, j>> : j \in DOMAIN models[m].cons[i].ids} : i \in DOMAIN models[m].cons}

(* the sequences ss[1], ss[2], ... joined, from place i on *)
RECURSIVE JoinFrom(_, _)
JoinFrom(ss, i) == IF i > Len(ss) THEN <<>> ELSE ss[i] \o JoinFrom(ss, i + 1)

Join(ss) == Bind(ss, LAMBDA v : JoinFrom(v, 1))

(* the child Models in the constraint list of Model h of heap ms, in the  *)
(* order of the list, and the constraints written in that list            *)
ChildSeq(ms, h) == Join([i \in DOMAIN ms[h].cons |-> ms[h].cons[i].ids])
OwnSeq(ms, h) == SelectSeq(ms[h].cons, LAMBDA c : c.kind = "c")

(* the Models that the setup of m makes or is handed to hold, in the      *)
(* order it makes them: components, performance Models, passengers and    *)
(* segments, the flight state of a RotorsAero                             *)
DeclaredChildren(m) ==
    IF models[m].type = "SimpleOnDemandAircraft" THEN models[m].segs
    ELSE IF models[m].type \in SegmentTypes THEN models[m].perf
    ELSE IF models[m].type \in MissionTypes
         THEN <<CHOOSE q \in DOMAIN models :
                    /\ models[q].type = "Passengers"
                    /\ SubSeq(models[q].path, 1, Len(models[q].path) - 1) = models[m].path>>
              \o models[m].segs
    ELSE IF models[m].type = "RotorsAero" THEN <<models[m].refs[2]>>
    ELSE <<>>

(* the constraint list of m with each child replaced, where it stands, by *)
(* the child's flattened list                                             *)
InPlace(m) ==
    Join([i \in DOMAIN models[m].cons |->
            IF models[m].cons[i].kind = "c" THEN <<models[m].cons[i]>>
            ELSE Join([j \in DOMAIN models[m].cons[i].ids |->
                          Flat(models[m].cons[i].ids[j])])])

(* the constraints of a forest listed level by level: those written by   *)
(* the Models `nodes`, then those written by their children, and so on;   *)
(* no list is flattened to make it                                        *)
RECURSIVE LevelOrder(_, _)
LevelOrder(ms, nodes) ==
    IF nodes = <<>> THEN <<>>
    ELSE Join([i \in DOMAIN nodes |-> OwnSeq(ms, nodes[i])])
         \o Bind(Join([i \in DOMAIN nodes |-> ChildSeq(ms, nodes[i])]),
                 LAMBDA next : LevelOrder(ms, next))

(* Model(None, kids): a Model that only groups the Models kids *)
Grouped(w0, kids) ==
    Bind(Begin(w0, "Model", <<>>), LAMBDA w1 :
         Finish(w1, New(w1), <<>>, [i \in DOMAIN kids |-> Sub(<<kids[i]>>)],
                <<>>, <<>>, <<>>, "", <<>>))

FlatIn(w) == FlattenItems(w.models, w.models[w.ret].cons)

(* (A then B) then C, and A then (B then C), flattened *)
GroupedLeft(A, B, C) ==
    Bind(Grouped(World, <<A, B>>), LAMBDA w1 :
    Bind(Grouped(w1, <<w1.ret, C>>), LAMBDA w2 : FlatIn(w2)))
GroupedRight(A, B, C) ==
    Bind(Grouped(World, <<B, C>>), LAMBDA w1 :
    Bind(Grouped(w1, <<A, w1.ret>>), LAMBDA w2 : FlatIn(w2)))

Held ==
    UNION {{<<m, x, models[m].cons[x[1]].ids[x[2]]>> : x \in ChildPositions(m)} : m \in Built}

Prefix(path) == SubSeq(path, 1, Len(path) - 1)

(* C10: a Hover segment has three performance Models and a LevelFlight two, *)
(* each made during the segment's own setup; every performance Model is     *)
(* held by one segment only, and its constraints are collected once, into   *)
(* that segment's list.                                                     *)
C10_PerformanceModelsPerSegment ==
    \A held \in {Held} :
    /\ \A g \in Segments :
          /\ [i \in DOMAIN models[g].perf |-> models[models[g].perf[i]].type]
               = IF models[g].type = "Hover"
                 THEN <<"RotorsAero", "BatteryPerformance", "PowerSystemPerformance">>
                 ELSE <<"BatteryPerformance", "PowerSystemPerformance">>
          /\ \A q \in RangeOf(models[g].perf) :
                /\ q > g
                /\ Prefix(models[q].path) = models[g].path
                /\ {h[1] : h \in {x \in held : x[3] = q}} = {g}
                /\ Cardinality({x \in held : x[3] = q}) = 1
    /\ \A g, h \in Segments :
          g # h => RangeOf(models[g].perf) \cap RangeOf(models[h].perf) = {}
    /\ \A q \in Built :
          models[q].type \in PerformanceTypes =>
              \E g \in Segments : q \in RangeOf(models[g].perf)

C10_Witness ==
    \E m \in Sizing :
        /\ Len(models[m].segs) = 6
        /\ \A i \in 1..6 : models[m].segs[i] \in Segments
        /\ Cardinality(UNION {RangeOf(models[models[m].segs[i]].perf) : i \in 1..6}) = 16

(* every built Model still has the Variables and the constraint list that *)
(* its own setup returned                                                 *)
C11_AsReturned ==
    \A m \in Built :
        /\ models[m].decls = models[m].made.decls
        /\ models[m].cons = models[m].made.cons

(* a step keeps every Model built before it: same path, same Variables,   *)
(* same constraint list                                                   *)
C11_StepKeeps ==
    \A m \in Built :
        /\ m \in DOMAIN models'
        /\ models'[m].built
        /\ models'[m].path = models[m].path
        /\ models'[m].decls = models[m].decls
        /\ models'[m].cons = models[m].cons

(* C11: building or composing changes only the Model being built: after   *)
(* any build step (aircraft, mission with its segments and performance    *)
(* Models, top-level problem) every Model built earlier has the Variables *)
(* and the constraint list its own setup returned; lookups and the        *)
(* parent's collection of its children write nothing into them.           *)
C11_BuildChangesOnlyOwnState == []C11_AsReturned /\ [][C11_StepKeeps]_vars

C11_Witness ==
    \E p \in Problems, s \in Sizing, t \in Typical :
        /\ s < t /\ t < p
        /\ models[s].refs = models[t].refs
        /\ \E l \in lookups : l.sym = "MTOW" /\ l.var.path = models[models[s].refs[1]].path
        /\ \E f \in Ids("FlightState") :
               Cardinality({x \in Held : x[3] = f}) = 4

(* the Models placed directly in the constraint list of p *)
Children(p) == UNION {RangeOf(models[p].cons[i].ids) : i \in DOMAIN models[p].cons}

(* the weight bounds of mission m: MTOW of aircraft a >= W_mission of m *)
WeightBounds(m, a) ==
    {i \in OwnConstraints(m) :
        /\ models[m].cons[i].op = ">="
        /\ models[m].cons[i].lhs = One(V(models[a].path, "MTOW"))
        /\ models[m].cons[i].rhs = One(V(models[m].path, "W_{mission}"))}

(* the declarations, over all Models built, of the Variable v *)
DeclarationsOf(v) == {d \in Declarations : QualifiedName(d) = <<v.path, v.sym>>}

(* C12: in every top-level problem made of a sizing and a typical mission *)
(* on one aircraft, each mission has its weight bound MTOW >= W_mission   *)
(* and its energy budget C_eff >= sum of E on the MTOW and C_eff of that  *)
(* one aircraft, each declared once; the aircraft's own constraints are   *)
(* in the problem's flattened set; and only the problem is solved, once,  *)
(* a Solution giving values to the Variables of the whole set.            *)
C12_JointProblemSharesDesignVariables ==
    /\ \A p \in Problems :
          \A flat \in {Flat(p)} :
          /\ \E a \in Children(p) \cap Ids("SimpleOnDemandAircraft") :
                /\ \A i \in OwnConstraints(a) : models[a].cons[i] \in RangeOf(flat)
                /\ \A m \in Children(p) \cap Missions :
                      /\ models[m].refs = <<a>>
                      /\ Cardinality(WeightBounds(m, a)) = 1
                      /\ Cardinality(EnergyBudgets(m)) = 1
                      /\ \A i \in WeightBounds(m, a) \cup EnergyBudgets(m) :
                            models[m].cons[i] \in RangeOf(flat)
                /\ Cardinality(DeclarationsOf(V(models[a].path, "MTOW"))) = 1
                /\ Cardinality(DeclarationsOf(V(models[a].path, "C_{eff}"))) = 1
          /\ Children(p) \cap Sizing # {}
          /\ Children(p) \cap Typical # {}
          /\ Cardinality(Children(p) \cap Ids("SimpleOnDemandAircraft")) = 1
    /\ \A i, j \in DOMAIN solves :
          /\ solves[i].problem \in Problems
          /\ solves[i].problem = solves[j].problem => i = j
          /\ solves[i].result.status = "Solution" =>
                 solves[i].solution.variables = ListVars(Flat(solves[i].problem))

C12_Witness ==
    \E i \in DOMAIN solves :
        \E s \in Children(solves[i].problem) \cap Sizing,
           t \in Children(solves[i].problem) \cap Typical :
            /\ solves[i].result.status = "Solution"
            /\ models[s].refs = models[t].refs
            /\ {V(models[models[s].refs[1]].path, "MTOW"),
                V(models[models[s].refs[1]].path, "C_{eff}"),
                V(models[s].path, "W_{mission}"),
                V(models[t].path, "W_{mission}")} \subseteq solves[i].solution.variables

====
